---- MODULE Spec2Model ----
(***************************************************************************)
(* zxic-ping: the watchdog of src/main.rs as a state machine.              *)
(*                                                                         *)
(* The process is one thread: startup (main, lines 93-157) and then the    *)
(* scheduler loop (lines 158-355).  One pass of the loop is six steps,     *)
(* taken in program order and tracked by pc:                               *)
(*   poll -> dispatch -> cpu -> net -> prune -> sleep -> poll ...          *)
(* The only concurrent actor is the kernel, which queues datagrams on the  *)
(* bound UDP socket at any time (Arrive).                                  *)
(*                                                                         *)
(* Time.  The loop reads the clock once per pass (now, line 159) and only  *)
(* ever uses now.duration_since(last_x).  The model keeps these three      *)
(* durations, in whole seconds, instead of the Instants; each saturates    *)
(* at its interval, the only value it is compared with.                    *)
(*                                                                         *)
(* Arithmetic.  calculate_cpu_usage works in f32.  On the model's inputs   *)
(* (counters below 2^24) the casts are exact and the comparison with       *)
(* 85.0 agrees with the comparison of the exact quotient, so usage is      *)
(* kept as the exact fraction num/den.                                     *)
(***************************************************************************)
EXTENDS Integers, Sequences, FiniteSets, TLC

VARIABLES
    pc,                         \* position of the main thread
    target_ip,                  \* main.rs:105
    server_cmd,                 \* main.rs:118, the AtomicU8 mailbox
    sockbuf,                    \* datagrams queued on signal_sock (main.rs:127)
    failure_count,              \* main.rs:131
    high_load_count,            \* main.rs:132
    back_to_normal_load_count,  \* main.rs:133
    high_latency_count,         \* main.rs:134
    prev_cpu_stats,             \* main.rs:142
    since_cpu_check,            \* now.duration_since(last_cpu_check), main.rs:228
    since_network_check,        \* now.duration_since(last_network_check), main.rs:285
    since_log_prune,            \* now.duration_since(last_log_prune), main.rs:344
    profile,                    \* the network parameters last written to /proc/sys
    effects,                    \* what the last step did to the outside world
    last,                       \* history: the last step taken and the class of its input
    cpu_run,                    \* history: the current run of like CPU samples
    slow_run,                   \* history: high-latency successes since the last normal one
    fail_run,                   \* history: failing checks since the last success
    net_before,                 \* history: slow_run and fail_run before the last network check
    emptied,                    \* history: the last poll left the socket's queue empty
    escalation,                 \* history: load-machine throttles since high_load_count was last 0
    call                        \* a function of main.rs applied on its own: its arguments and result

vars == <<pc, target_ip, server_cmd, sockbuf, failure_count, high_load_count,
          back_to_normal_load_count, high_latency_count, prev_cpu_stats,
          since_cpu_check, since_network_check, since_log_prune, profile,
          effects, last, cpu_run, slow_run, fail_run, net_before,
          emptied, escalation, call>>

(***************************************************************************)
(* Program constants                                                       *)
(***************************************************************************)
PING_INTERVAL == 60
DAY_INTERVAL == 86400
CPU_CHECK_INTERVAL == 30
MAX_FAILURES == 10
MAX_HIGH_LATENCY == 3
HIGH_LATENCY_THRESHOLD == 50
CPU_USAGE_THRESHOLD == 85
STARTUP_SLEEP == 30
LOOP_SLEEP == 2

DEFAULT_TARGET_IP == "127.0.0.1:80"
RESTART_SIGNAL_ADBD == "RESTART_ADBD"
KILL_SIGNAL_ADBD == "KILL_ADBD"
RESTART_SIGNAL_SERVER == "RESTART_SERVER"
SIGNAL_PING == "PING"

(***************************************************************************)
(* Bounds of the model                                                     *)
(***************************************************************************)
\* signal_sock's receive queue holds at most this many datagrams
MaxQueue == 2
\* the command line has at most this many arguments after the program's name
MaxArgs == 2
\* a line of /proc/stat has at most this many fields after its first token
MaxFields == 11
\* the counters of the snapshots given to calculate_cpu_usage take
\* MaxTicks + 1 values each
MaxTicks == 2
\* high_load_count and high_latency_count are followed up to this value
MaxStreak == 5
\* failure_count is followed up to this value
MaxFail == 12
\* /proc/stat samples: busy jiffies come in MaxBusy steps
MaxBusy == 5
\* passes shorter than a day are taken while the time since the last log
\* prune stays within this many seconds
MaxUptime == 120
\* the history variables count runs up to this length
RunCap == 5

Min(a, b) == IF a < b THEN a ELSE b

(***************************************************************************)
(* Inputs                                                                  *)
(***************************************************************************)
\* configured targets: one that parses as a SocketAddr, two that do not
Targets == {DEFAULT_TARGET_IP, "192.168.0.1", "router.lan:80"}

Payloads == {RESTART_SIGNAL_ADBD, KILL_SIGNAL_ADBD, RESTART_SIGNAL_SERVER,
             SIGNAL_PING, "FOO"}

\* every payload from one sender, a command and a ping from another
Datagrams ==
    [payload : Payloads, src : {"10.0.0.2:4000"}]
    \cup [payload : {KILL_SIGNAL_ADBD, SIGNAL_PING}, src : {"10.0.0.3:4000"}]

Stat(u, i) ==
    [user |-> u, nice |-> 0, system |-> 0, idle |-> i, iowait |-> 0,
     irq |-> 0, softirq |-> 0, steal |-> 0, guest |-> 0, guest_nice |-> 0]

ZeroStats == Stat(0, 0)

\* contents of /proc/stat the model draws from
StatSamples == {Stat(90 * k, 10 * k + 100 * m) : k \in 0..MaxBusy, m \in 0..1}

\* results of get_cpu_stats
CpuReads == {[ok |-> FALSE, stats |-> ZeroStats]}
            \cup {[ok |-> TRUE, stats |-> s] : s \in StatSamples}

\* outcomes of TcpStream::connect_timeout, with the time it took
Connects == {[connected |-> FALSE, ms |-> 3000]}
            \cup {[connected |-> TRUE, ms |-> m] : m \in {10, 50, 51}}

(***************************************************************************)
(* Effects: the calls a step makes to the collaborators                    *)
(***************************************************************************)
Fx(op, arg) == [op |-> op, arg |-> arg]

Count(op, fx) == Cardinality({i \in DOMAIN fx : fx[i].op = op})

send_udp_notification(message) == Fx("send_udp_notification", message)

throttle_network_parameters == Fx("throttle_network_parameters", "")

restore_network_parameters == Fx("restore_network_parameters", "")

optimize_network_parameters == Fx("optimize_network_parameters", "")

clear_page_cache == Fx("clear_page_cache", "")

reboot_system == Fx("reboot_system", "")

send_to(src) == Fx("send_to", src)

RECURSIVE ProfileAfter(_, _)
\* the parameter set in force after the calls fx, starting from p
ProfileAfter(p, fx) ==
    IF fx = <<>> THEN p
    ELSE LET e == Head(fx)
             q == CASE e.op = "throttle_network_parameters" -> "Throttled"
                    [] e.op = "restore_network_parameters" -> "Normal"
                    [] e.op = "optimize_network_parameters" -> "Optimized"
                    [] OTHER -> p
         IN  ProfileAfter(q, Tail(fx))

(***************************************************************************)
(* CPU sampler                                                             *)
(***************************************************************************)
total(s) ==
    s.user + s.nice + s.system + s.idle + s.iowait
    + s.irq + s.softirq + s.steal + s.guest + s.guest_nice

\* a slip: time waiting for I/O counted as busy
idle_total_NoIowait(s) == s.idle

idle_total(s) == s.idle + s.iowait

active_total(s) == total(s) - idle_total(s)

\* the usage as the fraction num/den (den > 0); 100 * active_delta / total_delta.
\* The source computes it in f32: for deltas below 900000 ticks the f32 value
\* is over 85.0 exactly when the fraction is over 85
calculate_cpu_usage(prev, current) ==
    LET active_delta == active_total(current) - active_total(prev)
        total_delta == total(current) - total(prev)
    IN  IF total_delta > 0
        THEN [num |-> 100 * active_delta, den |-> total_delta]
        ELSE [num |-> 0, den |-> 1]

\* a slip: >= for >
OverThreshold_AtLeast(usage) == usage.num >= CPU_USAGE_THRESHOLD * usage.den

\* usage > CPU_USAGE_THRESHOLD
OverThreshold(usage) == usage.num > CPU_USAGE_THRESHOLD * usage.den

\* a slip: the fallback of the startup read (lines 147-150) on every error
AfterReadError_Zeroed(prev) == ZeroStats

\* lines 277-279: the Err arm only logs, prev_cpu_stats keeps its value
AfterReadError(prev) == prev

(***************************************************************************)
(* Load hysteresis (main.rs:234-275)                                       *)
(***************************************************************************)
\* a slip: the count is tested before it is incremented
ThrottleDue_Late(hlc) == hlc = 4

\* a slip: >= for ==
ThrottleDue_AtLeast(hlc) == hlc >= 3

\* line 245, on the count just incremented
ThrottleDue(hlc) == hlc = 3

\* a slip: two samples are enough
RestoreDue_Early(btn) == btn >= 2

\* line 260, on the count just incremented
RestoreDue(btn) == btn >= 3

\* a slip: line 249 left out
AfterHighSample_Kept(btn) == btn

\* line 249: back_to_normal_load_count after a sample over the threshold
AfterHighSample(btn) == 0

\* a slip: the exit notification sits inside the if on restoreflag
LoadMachine_ExitOnRestore(over, hlc, btn) ==
    IF over
    THEN IF hlc = 0
         THEN [hlc |-> hlc + 1, btn |-> AfterHighSample(btn),
               fx |-> <<send_udp_notification("HIGH_LOAD_ENTER")>>]
         ELSE [hlc |-> hlc + 1, btn |-> AfterHighSample(btn),
               fx |-> <<send_udp_notification("HIGH_LOAD")>>
                      \o (IF ThrottleDue(hlc + 1)
                          THEN <<throttle_network_parameters>> ELSE <<>>)]
    ELSE IF hlc > 0
         THEN LET restoreflag == RestoreDue(btn + 1)
              IN  [hlc |-> IF restoreflag THEN 0 ELSE hlc,
                   btn |-> IF restoreflag THEN 0 ELSE btn + 1,
                   fx |-> IF restoreflag
                          THEN <<send_udp_notification("HIGH_LOAD_EXIT"),
                                 restore_network_parameters, clear_page_cache>>
                          ELSE <<>>]
         ELSE [hlc |-> hlc, btn |-> btn, fx |-> <<>>]

\* the match on usage > CPU_USAGE_THRESHOLD, main.rs:234-275
LoadMachine(over, hlc, btn) ==
    IF over
    THEN IF hlc = 0
         THEN [hlc |-> hlc + 1, btn |-> AfterHighSample(btn),
               fx |-> <<send_udp_notification("HIGH_LOAD_ENTER")>>]
         ELSE [hlc |-> hlc + 1, btn |-> AfterHighSample(btn),
               fx |-> <<send_udp_notification("HIGH_LOAD")>>
                      \o (IF ThrottleDue(hlc + 1)
                          THEN <<throttle_network_parameters>> ELSE <<>>)]
    ELSE IF hlc > 0
         THEN LET restoreflag == RestoreDue(btn + 1)
              IN  [hlc |-> IF restoreflag THEN 0 ELSE hlc,
                   btn |-> IF restoreflag THEN 0 ELSE btn + 1,
                   fx |-> <<send_udp_notification("HIGH_LOAD_EXIT")>>
                          \o (IF restoreflag
                              THEN <<restore_network_parameters, clear_page_cache>>
                              ELSE <<>>)]
         ELSE [hlc |-> hlc, btn |-> btn, fx |-> <<>>]

(***************************************************************************)
(* Connectivity prober, latency hysteresis and failure counter             *)
(* (main.rs:285-325, 605-638)                                              *)
(***************************************************************************)
\* target_ip.parse::<SocketAddr>() succeeds: an IP literal with a port
ParsesAsSocketAddr(t) == t = DEFAULT_TARGET_IP

\* (success, Some(duration)) or (false, None)
check_connectivity(conn) ==
    IF conn.connected
    THEN [success |-> TRUE, some |-> TRUE, ms |-> conn.ms]
    ELSE [success |-> FALSE, some |-> FALSE, ms |-> 0]

\* connect_duration.as_millis() > HIGH_LATENCY_THRESHOLD
HighLatency(ms) == ms > HIGH_LATENCY_THRESHOLD

\* a slip: > for ==
LatencyThrottleDue_Late(hlat) == hlat > MAX_HIGH_LATENCY

\* line 293, on the count just incremented
LatencyThrottleDue(hlat) == hlat = MAX_HIGH_LATENCY

\* the "at or above" reading of the restore test
LatencyRestoreDue_AtLeast(hlat) == hlat >= 3

\* line 299, on the count before it is reset
LatencyRestoreDue(hlat) == hlat = 3

\* a slip: reboot only when the threshold is first reached
RebootDue_Once(fails) == fails = MAX_FAILURES

\* line 317, on the count just incremented
RebootDue(fails) == fails >= MAX_FAILURES

\* a slip: the reset sits in the normal-latency branch only
FailuresAfter_NormalOnly(res, fails) ==
    IF res.success
    THEN IF res.some /\ res.ms > HIGH_LATENCY_THRESHOLD THEN fails ELSE 0
    ELSE fails + 1

\* failure_count after a check: lines 304, 310 and 314
FailuresAfter(res, fails) == IF res.success THEN 0 ELSE fails + 1

\* a slip: the failure arm resets the streak as the (true, None) arm does
LatencyAfterFailure_Reset(hlat) == 0

\* lines 312-322: the failure arm does not assign high_latency_count
LatencyAfterFailure(hlat) == hlat

\* the match on check_connectivity's result, main.rs:286-323
ConnectivityMachine(res, hlat, fails) ==
    IF res.success /\ res.some
    THEN IF HighLatency(res.ms)
         THEN [hlat |-> hlat + 1, fails |-> FailuresAfter(res, fails),
               fx |-> IF LatencyThrottleDue(hlat + 1)
                      THEN <<throttle_network_parameters>> ELSE <<>>]
         ELSE [hlat |-> 0, fails |-> FailuresAfter(res, fails),
               fx |-> IF LatencyRestoreDue(hlat)
                      THEN <<restore_network_parameters>> ELSE <<>>]
    ELSE IF res.success
         THEN [hlat |-> 0, fails |-> FailuresAfter(res, fails), fx |-> <<>>]
         ELSE [hlat |-> LatencyAfterFailure(hlat), fails |-> FailuresAfter(res, fails),
               fx |-> IF RebootDue(FailuresAfter(res, fails))
                      THEN <<reboot_system>> ELSE <<>>]

(***************************************************************************)
(* Command mailbox (main.rs:70-91, 160-225)                                *)
(***************************************************************************)
\* recv_from hands over the oldest datagram queued on the socket ...
Received(buf) == Head(buf)

\* a slip: the poll loops until the socket is empty
Remaining_Drained(buf) == <<>>

\* ... and leaves the others queued
Remaining(buf) == Tail(buf)

\* the command the listener stores for a payload; "None": it stores nothing
CommandFor(received) ==
    CASE received = RESTART_SIGNAL_ADBD -> "RestartADB"
      [] received = KILL_SIGNAL_ADBD -> "KillADB"
      [] received = RESTART_SIGNAL_SERVER -> "RestartSERVER"
      [] OTHER -> "None"

\* a slip: the reply is sent after the if-chain, whatever was read
Acknowledged_Always(received) == TRUE

\* a slip: the ping arm sends no reply
Acknowledged_NoPing(received) ==
    received \in {RESTART_SIGNAL_ADBD, KILL_SIGNAL_ADBD, RESTART_SIGNAL_SERVER}

\* the payloads the listener answers with OK
Acknowledged(received) ==
    received \in {RESTART_SIGNAL_ADBD, KILL_SIGNAL_ADBD,
                  RESTART_SIGNAL_SERVER, SIGNAL_PING}

\* a slip: the reboot arm stores None only after a reboot that worked
AfterDispatch_RebootKept(cmd) == IF cmd = "RestartSERVER" THEN cmd ELSE "None"

\* a slip: the kill arm does not store None
AfterDispatch_KillKept(cmd) == IF cmd = "KillADB" THEN cmd ELSE "None"

\* server_cmd after the dispatch of cmd: lines 197, 209 and 221
AfterDispatch(cmd) == "None"

\* a slip: a commanded reboot that returns starts the failure count afresh
FailuresAfterDispatch_RebootClears(cmd, fails) ==
    IF cmd = "RestartSERVER" THEN 0 ELSE fails

\* failure_count after the dispatch of cmd: no arm of lines 195-225 assigns it
FailuresAfterDispatch(cmd, fails) == fails

\* the calls the dispatch of cmd makes; adbd_started: force_restart_adbd_process
\* returned Ok (/bin/adbd could be run, and status returned)
DispatchCalls(cmd, adbd_started) ==
    CASE cmd = "RestartADB" ->
            <<Fx("force_restart_adbd_process", "")>>
            \o (IF adbd_started
                THEN <<send_udp_notification("ADBD_FORCE_RESTARTED")>> ELSE <<>>)
      [] cmd = "KillADB" ->
            <<Fx("force_kill_adbd_process", ""),
              send_udp_notification("ADBD_FORCE_KILLED")>>
      [] cmd = "RestartSERVER" -> <<reboot_system>>
      [] OTHER -> <<>>

(***************************************************************************)
(* History                                                                 *)
(***************************************************************************)
\* the command datagrams queued behind the oldest one
CommandsBehind(buf) ==
    Cardinality({j \in 2..Len(buf) : CommandFor(buf[j].payload) # "None"})

\* a step and its input.  For a poll and the dispatch that follows it the
\* input is the payload read ("WouldBlock": none), src is its sender, and
\* rivalled says that it is a command which was queued since the poll before
\* with another command queued behind it: two commands between two passes.
\* For a connectivity check ms is the time the connect took.
Step(name, in, src) ==
    [step |-> name, in |-> in, src |-> src, rivalled |-> FALSE, ms |-> 0]

NoRun == [kind |-> "none", len |-> 0, base |-> 0, edge |-> FALSE]

\* the run of CPU samples after one more sample of class kind, taken with
\* high_load_count = hlc; edge: that sample was exactly CPU_USAGE_THRESHOLD
RunAfter(run, kind, hlc, usage) ==
    LET edge == usage.num = CPU_USAGE_THRESHOLD * usage.den
    IN  IF run.kind = kind
        THEN [run EXCEPT !.len = Min(run.len + 1, RunCap), !.edge = edge]
        ELSE [kind |-> kind, len |-> 1, base |-> hlc, edge |-> edge]

(***************************************************************************)
(* The order of the steps of a pass (main.rs:158-355)                      *)
(***************************************************************************)
\* a slip: the connectivity check sits before the CPU check
After_NetFirst(step) ==
    CASE step = "poll" -> "dispatch"
      [] step = "dispatch" -> "net"
      [] step = "net" -> "cpu"
      [] step = "cpu" -> "prune"
      [] step = "prune" -> "sleep"
      [] step = "sleep" -> "poll"

\* the step that follows step in the body of the loop
After(step) ==
    CASE step = "poll" -> "dispatch"
      [] step = "dispatch" -> "cpu"
      [] step = "cpu" -> "net"
      [] step = "net" -> "prune"
      [] step = "prune" -> "sleep"
      [] step = "sleep" -> "poll"

(***************************************************************************)
(* Timers (main.rs:228, 285, 344)                                          *)
(***************************************************************************)
\* a slip: the task runs from half its interval on
Due_Half(since, interval) == 2 * since >= interval

\* now.duration_since(last) >= Duration::from_secs(interval)
Due(since, interval) == since >= interval

(***************************************************************************)
(* Startup (main.rs:93-157)                                                *)
(***************************************************************************)
\* no function is applied on its own
NoCall == [fn |-> "none", a |-> <<>>, b |-> <<>>, done |-> FALSE, result |-> <<>>]

Init ==
    /\ call = NoCall
    /\ escalation = 0
    /\ pc = "start"
    /\ target_ip = ""
    /\ server_cmd = "None"
    /\ sockbuf = <<>>
    /\ failure_count = 0
    /\ high_load_count = 0
    /\ back_to_normal_load_count = 0
    /\ high_latency_count = 0
    /\ prev_cpu_stats = ZeroStats
    /\ since_cpu_check = 0
    /\ since_network_check = 0
    /\ since_log_prune = 0
    /\ profile = "Boot"
    /\ effects = <<>>
    /\ last = Step("none", "", "")
    /\ cpu_run = NoRun
    /\ slow_run = 0
    /\ fail_run = 0
    /\ net_before = [slow |-> 0, fail |-> 0]
    /\ emptied = TRUE

\* target: what get_target_ip returns; bound: UdpSocket::bind succeeded;
\* read: the first get_cpu_stats
Startup(target, bound, read) ==
    /\ pc = "start"
    /\ target_ip' = target
    /\ IF bound
       THEN /\ pc' = "poll"
            /\ prev_cpu_stats' = IF read.ok THEN read.stats ELSE ZeroStats
            /\ since_cpu_check' = Min(STARTUP_SLEEP, CPU_CHECK_INTERVAL)
            /\ since_network_check' = Min(STARTUP_SLEEP, PING_INTERVAL)
            /\ since_log_prune' = Min(STARTUP_SLEEP, DAY_INTERVAL)
            /\ effects' = <<optimize_network_parameters>>
            /\ profile' = ProfileAfter(profile, effects')
       ELSE /\ pc' = "panicked"
            /\ UNCHANGED <<prev_cpu_stats, since_cpu_check, since_network_check,
                           since_log_prune, effects, profile>>
    /\ last' = Step("startup", "", "")
    /\ UNCHANGED <<server_cmd, sockbuf, failure_count, high_load_count,
                   back_to_normal_load_count, high_latency_count,
                   cpu_run, slow_run, fail_run, net_before,
                   emptied>>
    /\ UNCHANGED <<escalation, call>>

Running == pc \in {"poll", "dispatch", "cpu", "net", "prune", "sleep"}

(***************************************************************************)
(* The kernel queues a datagram on the control port                        *)
(***************************************************************************)
Arrive(dg) ==
    /\ Running
    /\ Len(sockbuf) < MaxQueue
    /\ sockbuf' = Append(sockbuf, dg)
    /\ UNCHANGED <<pc, target_ip, server_cmd, failure_count, high_load_count,
                   back_to_normal_load_count, high_latency_count, prev_cpu_stats,
                   since_cpu_check, since_network_check, since_log_prune,
                   profile, effects, last, cpu_run, slow_run, fail_run, net_before,
                   emptied>>
    /\ UNCHANGED <<escalation, call>>

(***************************************************************************)
(* The scheduler loop (main.rs:158-355)                                    *)
(***************************************************************************)
\* lines 159-193: one non-blocking recv_from
PollMailbox ==
    /\ pc = "poll"
    /\ pc' = After("poll")
    /\ IF sockbuf # <<>>
       THEN LET received == Received(sockbuf).payload
                src == Received(sockbuf).src
            IN  /\ sockbuf' = Remaining(sockbuf)
                /\ server_cmd' = IF CommandFor(received) # "None"
                                 THEN CommandFor(received) ELSE server_cmd
                /\ effects' = IF Acknowledged(received)
                              THEN <<send_to(src)>> ELSE <<>>
                /\ last' = [Step("poll", received, src) EXCEPT
                                !.rivalled = /\ emptied
                                             /\ CommandFor(received) # "None"
                                             /\ CommandsBehind(sockbuf) > 0]
       ELSE /\ effects' = <<>>
            /\ last' = Step("poll", "WouldBlock", "")
            /\ UNCHANGED <<sockbuf, server_cmd>>
    /\ emptied' = (sockbuf' = <<>>)
    /\ UNCHANGED <<target_ip, failure_count, high_load_count,
                   back_to_normal_load_count, high_latency_count, prev_cpu_stats,
                   since_cpu_check, since_network_check, since_log_prune,
                   profile, cpu_run, slow_run, fail_run, net_before>>
    /\ UNCHANGED <<escalation, call>>

\* lines 195-225; reboot_returns: /sbin/reboot came back and the process
\* lives on; adbd_exits: the /bin/adbd that was started exits, so that
\* Command::status (line 767), which waits for it, returns
DispatchCommand(adbd_started, adbd_exits, reboot_returns) ==
    /\ pc = "dispatch"
    /\ effects' = DispatchCalls(server_cmd, adbd_started /\ adbd_exits)
    /\ server_cmd' = AfterDispatch(server_cmd)
    /\ pc' = CASE server_cmd = "RestartSERVER" /\ ~reboot_returns -> "rebooted"
               [] server_cmd = "RestartADB" /\ adbd_started /\ ~adbd_exits -> "blocked"
               [] OTHER -> After("dispatch")
    /\ last' = [last EXCEPT !.step = "dispatch"]
    /\ failure_count' = FailuresAfterDispatch(server_cmd, failure_count)
    /\ UNCHANGED <<target_ip, sockbuf, high_load_count,
                   back_to_normal_load_count, high_latency_count, prev_cpu_stats,
                   since_cpu_check, since_network_check, since_log_prune,
                   profile, cpu_run, slow_run, fail_run, net_before,
                   emptied>>
    /\ UNCHANGED <<escalation, call>>

\* lines 228-282
CpuCheck(read) ==
    /\ pc = "cpu"
    /\ pc' = After("cpu")
    /\ IF Due(since_cpu_check, CPU_CHECK_INTERVAL)
       THEN /\ since_cpu_check' = 0
            /\ IF read.ok
               THEN LET usage == calculate_cpu_usage(prev_cpu_stats, read.stats)
                        over == OverThreshold(usage)
                        m == LoadMachine(over, high_load_count,
                                         back_to_normal_load_count)
                        kind == IF over THEN "over" ELSE "under"
                    IN  /\ m.hlc <= MaxStreak
                        /\ prev_cpu_stats' = read.stats
                        /\ high_load_count' = m.hlc
                        /\ back_to_normal_load_count' = m.btn
                        /\ effects' = m.fx
                        /\ last' = Step("cpu", kind, "")
                        /\ cpu_run' = RunAfter(cpu_run, kind, high_load_count, usage)
                        /\ escalation' = IF m.hlc = 0 THEN 0
                                         ELSE escalation + Count("throttle_network_parameters", m.fx)
               ELSE /\ effects' = <<>>
                    /\ last' = Step("cpu", "err", "")
                    /\ prev_cpu_stats' = AfterReadError(prev_cpu_stats)
                    /\ UNCHANGED <<high_load_count, back_to_normal_load_count,
                                   cpu_run, escalation>>
       ELSE /\ effects' = <<>>
            /\ last' = Step("cpu", "not due", "")
            /\ UNCHANGED <<since_cpu_check, prev_cpu_stats, high_load_count,
                           back_to_normal_load_count, cpu_run, escalation>>
    /\ profile' = ProfileAfter(profile, effects')
    /\ UNCHANGED <<target_ip, server_cmd, sockbuf, failure_count,
                   high_latency_count, since_network_check, since_log_prune,
                   slow_run, fail_run, net_before, emptied>>
    /\ UNCHANGED call

\* lines 285-325; conn: how the connect went; reboot_returns as above
NetworkCheck(conn, reboot_returns) ==
    /\ pc = "net"
    /\ IF Due(since_network_check, PING_INTERVAL)
       THEN IF ParsesAsSocketAddr(target_ip)
            THEN LET res == check_connectivity(conn)
                     m == ConnectivityMachine(res, high_latency_count, failure_count)
                     kind == IF ~res.success THEN "fail"
                             ELSE IF res.some /\ HighLatency(res.ms)
                                  THEN "slow" ELSE "fast"
                 IN  /\ m.hlat <= MaxStreak
                     /\ m.fails <= MaxFail
                     /\ high_latency_count' = m.hlat
                     /\ failure_count' = m.fails
                     /\ effects' = m.fx
                     /\ since_network_check' = 0
                     /\ pc' = IF Count("reboot_system", m.fx) > 0 /\ ~reboot_returns
                              THEN "rebooted" ELSE After("net")
                     /\ last' = [Step("net", kind, "") EXCEPT !.ms = res.ms]
                     /\ slow_run' = CASE kind = "slow" -> Min(slow_run + 1, RunCap)
                                      [] kind = "fast" -> 0
                                      [] OTHER -> slow_run
                     /\ fail_run' = IF kind = "fail"
                                    THEN Min(fail_run + 1, MaxFail + 1) ELSE 0
                     /\ net_before' = [slow |-> slow_run, fail |-> fail_run]
            ELSE \* target_ip.parse().unwrap() panics, main.rs:623
                 /\ pc' = "panicked"
                 /\ effects' = <<>>
                 /\ last' = Step("net", "panic", "")
                 /\ UNCHANGED <<high_latency_count, failure_count,
                                since_network_check, slow_run, fail_run, net_before>>
       ELSE /\ pc' = After("net")
            /\ effects' = <<>>
            /\ last' = Step("net", "not due", "")
            /\ UNCHANGED <<high_latency_count, failure_count,
                           since_network_check, slow_run, fail_run, net_before>>
    /\ profile' = ProfileAfter(profile, effects')
    /\ UNCHANGED <<target_ip, server_cmd, sockbuf, high_load_count,
                   back_to_normal_load_count, prev_cpu_stats, since_cpu_check,
                   since_log_prune, cpu_run, emptied>>
    /\ UNCHANGED <<escalation, call>>

\* lines 344-351
LogPrune ==
    /\ pc = "prune"
    /\ pc' = After("prune")
    /\ IF Due(since_log_prune, DAY_INTERVAL)
       THEN /\ effects' = <<Fx("fs::write", "/etc_rw/zxping.log")>>
            /\ since_log_prune' = 0
            /\ last' = Step("prune", "due", "")
       ELSE /\ effects' = <<>>
            /\ last' = Step("prune", "not due", "")
            /\ UNCHANGED since_log_prune
    /\ UNCHANGED <<target_ip, server_cmd, sockbuf, failure_count, high_load_count,
                   back_to_normal_load_count, high_latency_count, prev_cpu_stats,
                   since_cpu_check, since_network_check, profile,
                   cpu_run, slow_run, fail_run, net_before,
                   emptied>>
    /\ UNCHANGED <<escalation, call>>

\* line 354 and the return to line 159: the next pass reads the clock d
\* seconds after this one did (the 2 s sleep and whatever blocked before it)
Sleep(d) ==
    /\ pc = "sleep"
    /\ d >= LOOP_SLEEP
    /\ d >= DAY_INTERVAL \/ since_log_prune + d <= MaxUptime
    /\ pc' = After("sleep")
    /\ since_cpu_check' = Min(since_cpu_check + d, CPU_CHECK_INTERVAL)
    /\ since_network_check' = Min(since_network_check + d, PING_INTERVAL)
    /\ since_log_prune' = Min(since_log_prune + d, DAY_INTERVAL)
    /\ effects' = <<>>
    /\ last' = Step("sleep", "", "")
    /\ UNCHANGED <<target_ip, server_cmd, sockbuf, failure_count, high_load_count,
                   back_to_normal_load_count, high_latency_count, prev_cpu_stats,
                   profile, cpu_run, slow_run, fail_run, net_before,
                   emptied>>
    /\ UNCHANGED <<escalation, call>>

(***************************************************************************)
(* Target selection (main.rs:587-603)                                      *)
(*                                                                         *)
(* A string is kept as the number of '-' it begins with and the rest.      *)
(***************************************************************************)
Str(dashes, body) == [dashes |-> dashes, body |-> body]

\* arg.starts_with("--")
starts_with_dashes(arg) == arg.dashes >= 2

\* env_ip.is_empty()
is_empty(s) == s.dashes = 0 /\ s.body = ""

\* line 591: the arguments the search passes over
Skipped(arg) == starts_with_dashes(arg)

\* args[1] is the program's name; env: TARGET_IP, set or not
get_target_ip(args, env) ==
    LET taken == {i \in 2..Len(args) : ~Skipped(args[i])}
    IN  IF taken # {}
        THEN args[CHOOSE i \in taken : \A j \in taken : i <= j]
        ELSE IF env.set /\ ~is_empty(env.value)
             THEN env.value
             ELSE Str(0, DEFAULT_TARGET_IP)

(***************************************************************************)
(* /proc/stat (main.rs:358-384)                                            *)
(*                                                                         *)
(* A line is the sequence of its whitespace-separated tokens, a token the  *)
(* sequence of its characters.  Tokens here have at most two digits, far   *)
(* from u64::MAX, so str::parse::<u64> fails only on their form.           *)
(***************************************************************************)
DigitChars == <<"0", "1", "2", "3", "4", "5", "6", "7", "8", "9">>

IsDigit(c) == \E d \in DOMAIN DigitChars : DigitChars[d] = c

DigitValue(c) == (CHOOSE d \in DOMAIN DigitChars : DigitChars[d] = c) - 1

RECURSIVE DecimalValue(_, _)
DecimalValue(digits, acc) ==
    IF digits = <<>> THEN acc
    ELSE DecimalValue(Tail(digits), 10 * acc + DigitValue(Head(digits)))

\* str::parse::<u64>: an optional '+', then one digit or more
parse_u64(tok) ==
    LET digits == IF tok # <<>> /\ Head(tok) = "+" THEN Tail(tok) ELSE tok
    IN  IF digits # <<>> /\ \A k \in DOMAIN digits : IsDigit(digits[k])
        THEN [ok |-> TRUE, value |-> DecimalValue(digits, 0)]
        ELSE [ok |-> FALSE, value |-> 0]

\* .parse().unwrap_or(0)
unwrap_or_0(tok) == IF parse_u64(tok).ok THEN parse_u64(tok).value ELSE 0

CpuToken == <<"c", "p", "u">>

\* line.starts_with("cpu ")
starts_with_cpu(line) == Len(line) >= 2 /\ line[1] = CpuToken

\* a slip: the count leaves out the "cpu" token
EnoughParts_Eleven(parts) == Len(parts) >= 11

\* line 366
EnoughParts(parts) == Len(parts) >= 10

\* content: whether /proc/stat could be read, and its lines
get_cpu_stats(content) ==
    LET found == {l \in DOMAIN content.lines :
                    /\ starts_with_cpu(content.lines[l])
                    /\ EnoughParts(content.lines[l])}
    IN  IF ~content.readable \/ found = {}
        THEN [ok |-> FALSE, stats |-> ZeroStats]
        ELSE LET parts == content.lines[CHOOSE l \in found : \A m \in found : l <= m]
             IN  [ok |-> TRUE,
                  stats |-> [user |-> unwrap_or_0(parts[2]),
                             nice |-> unwrap_or_0(parts[3]),
                             system |-> unwrap_or_0(parts[4]),
                             idle |-> unwrap_or_0(parts[5]),
                             iowait |-> unwrap_or_0(parts[6]),
                             irq |-> unwrap_or_0(parts[7]),
                             softirq |-> unwrap_or_0(parts[8]),
                             steal |-> unwrap_or_0(parts[9]),
                             guest |-> unwrap_or_0(parts[10]),
                             guest_nice |-> IF Len(parts) >= 11
                                            THEN unwrap_or_0(parts[11]) ELSE 0]]

(***************************************************************************)
(* The three functions applied on their own, to every input of a bounded   *)
(* set                                                                     *)
(***************************************************************************)
Call(fn, a, b) == [fn |-> fn, a |-> a, b |-> b, done |-> FALSE, result |-> <<>>]

\* snapshots in which every kind of counter moves, forwards and backwards
UsageSnapshots ==
    {[user |-> 90 * u, nice |-> 0, system |-> 3 * s, idle |-> 10 + 100 * i,
      iowait |-> 5 * w, irq |-> 0, softirq |-> 0, steal |-> 0, guest |-> 0,
      guest_nice |-> 7 * g] :
        u \in 0..MaxTicks, s \in 0..1, i \in 0..MaxTicks, w \in 0..1, g \in 0..1}

\* what a command line is made of: the flags of main, an unknown option,
\* two endpoints and the empty string
ArgStrings ==
    {Str(2, "background"), Str(1, "b"), Str(2, "isprod"), Str(2, "verbose"),
     Str(0, "10.0.0.1:80"), Str(0, "10.0.0.2"), Str(0, "")}

ArgLists ==
    {<<Str(0, "zxic-ping")>> \o rest :
        rest \in UNION {[1..n -> ArgStrings] : n \in 0..MaxArgs}}

\* TARGET_IP: not set, set to the empty string, set to an endpoint
Envs ==
    {[set |-> FALSE, value |-> Str(0, "")], [set |-> TRUE, value |-> Str(0, "")],
     [set |-> TRUE, value |-> Str(0, "10.0.0.9:80")]}

\* the token that writes n in decimal, n < 100
Numeral(n) ==
    IF n < 10 THEN <<DigitChars[n + 1]>>
    ELSE <<DigitChars[(n \div 10) + 1], DigitChars[(n % 10) + 1]>>

\* tokens that are not the decimal writing of a counter
OddTokens == {<<"x">>, <<"1", ".", "5">>, <<"-", "5">>, <<"+", "7">>, <<"4", "k">>}

\* a line of n fields after its first token; field k reads 10 + k, except
\* field odd (if any), which reads tok
StatLine(first, n, odd, tok) ==
    <<first>> \o [k \in 1..n |-> IF k = odd THEN tok ELSE Numeral(10 + k)]

StatLines ==
    {StatLine(first, n, odd, tok) :
        first \in {CpuToken, <<"c", "p", "u", "0">>},
        n \in 8..MaxFields, odd \in 0..MaxFields, tok \in OddTokens}

\* the lines put in front of another one
LeadingLines ==
    {StatLine(CpuToken, 8, 0, <<"x">>), StatLine(<<"c", "p", "u", "0">>, 10, 0, <<"x">>),
     StatLine(CpuToken, 9, 2, <<"x">>)}

StatFiles ==
    {[readable |-> FALSE, lines |-> <<>>], [readable |-> TRUE, lines |-> <<>>]}
    \cup {[readable |-> TRUE, lines |-> <<l>>] : l \in StatLines}
    \cup {[readable |-> TRUE, lines |-> <<l, m>>] : l \in LeadingLines, m \in StatLines}

UsageCalls ==
    {Call("calculate_cpu_usage", prev, current) :
        prev \in UsageSnapshots, current \in UsageSnapshots}

TargetCalls == {Call("get_target_ip", args, env) : args \in ArgLists, env \in Envs}

StatCalls == {Call("get_cpu_stats", content, <<>>) : content \in StatFiles}

\* the variables of the running program
program ==
    <<pc, target_ip, server_cmd, sockbuf, failure_count, high_load_count,
      back_to_normal_load_count, high_latency_count, prev_cpu_stats,
      since_cpu_check, since_network_check, since_log_prune, profile,
      effects, last, cpu_run, slow_run, fail_run, net_before, emptied,
      escalation>>

InitCall ==
    /\ \/ call \in UsageCalls
       \/ call \in TargetCalls
       \/ call \in StatCalls
    /\ escalation = 0
    /\ pc = "start"
    /\ target_ip = ""
    /\ server_cmd = "None"
    /\ sockbuf = <<>>
    /\ failure_count = 0
    /\ high_load_count = 0
    /\ back_to_normal_load_count = 0
    /\ high_latency_count = 0
    /\ prev_cpu_stats = ZeroStats
    /\ since_cpu_check = 0
    /\ since_network_check = 0
    /\ since_log_prune = 0
    /\ profile = "Boot"
    /\ effects = <<>>
    /\ last = Step("none", "", "")
    /\ cpu_run = NoRun
    /\ slow_run = 0
    /\ fail_run = 0
    /\ net_before = [slow |-> 0, fail |-> 0]
    /\ emptied = TRUE

Apply_calculate_cpu_usage ==
    /\ call.fn = "calculate_cpu_usage"
    /\ ~call.done
    /\ call' = [call EXCEPT !.done = TRUE,
                            !.result = calculate_cpu_usage(call.a, call.b)]
    /\ UNCHANGED program

Apply_get_target_ip ==
    /\ call.fn = "get_target_ip"
    /\ ~call.done
    /\ call' = [call EXCEPT !.done = TRUE,
                            !.result = get_target_ip(call.a, call.b)]
    /\ UNCHANGED program

Apply_get_cpu_stats ==
    /\ call.fn = "get_cpu_stats"
    /\ ~call.done
    /\ call' = [call EXCEPT !.done = TRUE, !.result = get_cpu_stats(call.a)]
    /\ UNCHANGED program

\* each function on each of its inputs
NextCall ==
    \/ Apply_calculate_cpu_usage
    \/ Apply_get_target_ip
    \/ Apply_get_cpu_stats

(***************************************************************************)
(* Specifications.  Each draws the inputs of one part of the program from  *)
(* its full set and keeps the rest of the environment quiet.               *)
(***************************************************************************)
\* a connect that succeeds quickly
QuietConnects == {[connected |-> TRUE, ms |-> 10]}

\* /proc/stat never moves: every usage is 0
QuietReads == {[ok |-> TRUE, stats |-> ZeroStats]}

\* every check is due in every pass; once in a while a pass stalls for a day
CoarsePasses == {PING_INTERVAL, DAY_INTERVAL}

\* passes of every length: the 2 s sleep alone, with a connect that timed
\* out before it, a stall over two CPU intervals, a stall of a day
Passes ==
    {LOOP_SLEEP, LOOP_SLEEP + 3, 2 * CPU_CHECK_INTERVAL + LOOP_SLEEP, DAY_INTERVAL}

\* the timers under passes of every length
NextTime ==
    \/ \E t \in {DEFAULT_TARGET_IP}, b \in BOOLEAN, r \in QuietReads : Startup(t, b, r)
    \/ PollMailbox
    \/ DispatchCommand(TRUE, TRUE, TRUE)
    \/ \E r \in QuietReads : CpuCheck(r)
    \/ \E c \in QuietConnects : NetworkCheck(c, TRUE)
    \/ LogPrune
    \/ \E d \in Passes : Sleep(d)

\* snapshots 90% and then exactly 85% of busy time apart
EdgeSamples == {Stat(0, 100), Stat(90, 110), Stat(175, 125)}

EdgeReads == {[ok |-> FALSE, stats |-> ZeroStats]}
             \cup {[ok |-> TRUE, stats |-> s] : s \in EdgeSamples}

\* a connect that fails, one of exactly 50 ms, one of 51 ms
EdgeConnects == {[connected |-> FALSE, ms |-> 3000]}
                \cup {[connected |-> TRUE, ms |-> m] : m \in {50, 51}}

FewDatagrams ==
    [payload : {RESTART_SIGNAL_ADBD, RESTART_SIGNAL_SERVER}, src : {"10.0.0.2:4000"}]

\* the two machines and the mailbox together: samples and probes at the
\* thresholds, one command at a time, streaks a step past their thresholds,
\* no failure after a failure
NextAll ==
    \/ \E t \in {DEFAULT_TARGET_IP}, b \in BOOLEAN, r \in QuietReads : Startup(t, b, r)
    \/ \E dg \in FewDatagrams : sockbuf = <<>> /\ Arrive(dg)
    \/ PollMailbox
    \/ \E a \in BOOLEAN, x \in BOOLEAN, rr \in BOOLEAN : DispatchCommand(a, x, rr)
    \/ \E r \in EdgeReads : high_load_count <= 3 /\ CpuCheck(r)
    \/ \E c \in EdgeConnects :
            /\ c.connected \/ failure_count < 1
            /\ high_latency_count <= 3
            /\ NetworkCheck(c, TRUE)
    \/ LogPrune
    \/ \E d \in CoarsePasses : Sleep(d)

\* the load machine under every CPU reading
NextLoad ==
    \/ \E t \in Targets, b \in BOOLEAN, r \in CpuReads : Startup(t, b, r)
    \/ PollMailbox
    \/ DispatchCommand(TRUE, TRUE, TRUE)
    \/ \E r \in CpuReads : CpuCheck(r)
    \/ \E c \in QuietConnects : NetworkCheck(c, TRUE)
    \/ LogPrune
    \/ \E d \in CoarsePasses : Sleep(d)

\* the latency machine and the failure counter under every probe outcome
NextNet ==
    \/ \E t \in Targets, b \in BOOLEAN, r \in CpuReads : Startup(t, b, r)
    \/ PollMailbox
    \/ DispatchCommand(TRUE, TRUE, TRUE)
    \/ \E r \in QuietReads : CpuCheck(r)
    \/ \E c \in Connects, rr \in BOOLEAN : NetworkCheck(c, rr)
    \/ LogPrune
    \/ \E d \in CoarsePasses : Sleep(d)

\* the mailbox under every datagram and every outcome of a command
NextCmd ==
    \/ \E t \in {DEFAULT_TARGET_IP}, b \in BOOLEAN, r \in QuietReads : Startup(t, b, r)
    \/ \E dg \in Datagrams : Arrive(dg)
    \/ PollMailbox
    \/ \E a \in BOOLEAN, x \in BOOLEAN, rr \in BOOLEAN : DispatchCommand(a, x, rr)
    \/ \E r \in QuietReads : CpuCheck(r)
    \/ \E c \in QuietConnects : NetworkCheck(c, TRUE)
    \/ LogPrune
    \/ \E d \in CoarsePasses : Sleep(d)

SpecLoad == Init /\ [][NextLoad]_vars
SpecNet == Init /\ [][NextNet]_vars
SpecCmd == Init /\ [][NextCmd]_vars
SpecTime == Init /\ [][NextTime]_vars
SpecAll == Init /\ [][NextAll]_vars
SpecCall == InitCall /\ [][NextCall]_vars

(***************************************************************************)
(* Claims                                                                  *)
(***************************************************************************)
Throttles(fx) == Count("throttle_network_parameters", fx)

Restores(fx) == Count("restore_network_parameters", fx)

CacheClears(fx) == Count("clear_page_cache", fx)

Reboots(fx) == Count("reboot_system", fx)

\* the last step was a CPU check that took a sample of class kind, the
\* n-th of a run that began with high_load_count = base
CpuSampled(kind) ==
    /\ last.step = "cpu"
    /\ last.in = kind
    /\ cpu_run.kind = kind

\* C1: from Normal (high_load_count = 0), the first and the second of
\* consecutive samples over 85% invoke no throttle, and the third invokes
\* throttle exactly once.
C1_ThrottleOnThirdHighSample ==
    (CpuSampled("over") /\ cpu_run.base = 0 /\ cpu_run.len <= 3)
    => Throttles(effects) = (IF cpu_run.len = 3 THEN 1 ELSE 0)

C1_Witness ==
    /\ CpuSampled("over")
    /\ cpu_run.base = 0
    /\ cpu_run.len = 3
    /\ Throttles(effects) = 1
    /\ high_load_count = 3

\* C2: from Elevated (high_load_count >= 1), the first and the second of
\* consecutive samples at or under 85% invoke neither restore nor
\* clear-page-cache, the third invokes each exactly once and leaves
\* high_load_count = back_to_normal_load_count = 0.
C2_RestoreOnThirdLowSample ==
    (CpuSampled("under") /\ cpu_run.base >= 1 /\ cpu_run.len <= 3)
    => /\ Restores(effects) = (IF cpu_run.len = 3 THEN 1 ELSE 0)
       /\ CacheClears(effects) = (IF cpu_run.len = 3 THEN 1 ELSE 0)
       /\ cpu_run.len = 3 =>
            high_load_count = 0 /\ back_to_normal_load_count = 0

C2_Witness ==
    /\ CpuSampled("under")
    /\ cpu_run.base >= 3
    /\ cpu_run.len = 3
    /\ Restores(effects) = 1
    /\ CacheClears(effects) = 1
    /\ high_load_count = 0

\* the last step was a connectivity check whose probe was of class kind
Probed(kind) == last.step = "net" /\ last.in = kind

\* C3: counting from high_latency_count = 0, the first and the second
\* successful probe over 50 ms invoke no throttle and the third invokes it
\* exactly once; a normal-latency probe that comes next invokes restore
\* exactly once and leaves high_latency_count = 0.
C3_ThrottleThenRestore ==
    /\ (Probed("slow") /\ slow_run <= 3)
       => Throttles(effects) = (IF slow_run = 3 THEN 1 ELSE 0)
    /\ (Probed("fast") /\ net_before.slow = 3)
       => Restores(effects) = 1 /\ high_latency_count = 0

C3_Witness ==
    /\ Probed("fast")
    /\ net_before.slow = 3
    /\ Restores(effects) = 1
    /\ high_latency_count = 0
    /\ profile = "Normal"

\* C4: high_latency_count follows the streak past 3, and a normal-latency
\* probe after four or more high-latency ones resets it to 0 without
\* invoking restore, although throttle was invoked at the third.
C4_NoRestoreAfterFour ==
    /\ (Probed("slow") /\ slow_run < RunCap) => high_latency_count = slow_run
    /\ (Probed("slow") /\ slow_run = 3) => Throttles(effects) = 1
    /\ (Probed("fast") /\ net_before.slow >= 4)
       => Restores(effects) = 0 /\ high_latency_count = 0

C4_Witness ==
    /\ Probed("fast")
    /\ net_before.slow >= 4
    /\ Restores(effects) = 0
    /\ high_latency_count = 0
    /\ profile = "Throttled"

\* C5: a failing check invokes reboot exactly when it is at least the 10th
\* failure in a row; the count is not reset by the attempt, so the 11th and
\* later failures invoke it again.
C5_RebootFromTenthFailure ==
    Probed("fail")
    => /\ Reboots(effects) = (IF fail_run >= 10 THEN 1 ELSE 0)
       /\ fail_run <= MaxFail => failure_count = fail_run

C5_Witness ==
    /\ Probed("fail")
    /\ fail_run = 11
    /\ net_before.fail = 10
    /\ Reboots(effects) = 1
    /\ pc = "prune"

\* C6: a successful probe of any latency leaves failure_count = 0, and a
\* reboot from the failure path is preceded by at least 10 failures in a row
\* since the last success.
C6_SuccessResetsFailures ==
    /\ (Probed("slow") \/ Probed("fast")) => failure_count = 0
    /\ (Probed("fail") /\ Reboots(effects) > 0) => fail_run >= 10

C6_Witness ==
    /\ Probed("slow")
    /\ net_before.fail >= 1
    /\ failure_count = 0

Commands == {"RESTART_ADBD", "KILL_ADBD", "RESTART_SERVER"}

Recognized == Commands \cup {"PING"}

\* the capability a command payload asks for
Capability(payload) ==
    CASE payload = "RESTART_ADBD" -> "force_restart_adbd_process"
      [] payload = "KILL_ADBD" -> "force_kill_adbd_process"
      [] payload = "RESTART_SERVER" -> "reboot_system"

\* the calls of fx that run a commanded capability
CommandCalls(fx) ==
    Count("force_restart_adbd_process", fx) + Count("force_kill_adbd_process", fx)
    + Count("reboot_system", fx)

Counters ==
    <<failure_count, high_load_count, back_to_normal_load_count, high_latency_count>>

\* the step being taken is the poll of the mailbox
PollStep == pc = "poll" /\ pc' = "dispatch"

\* C7: the pass that reads a command datagram sends exactly one OK, to its
\* sender, and invokes the matching capability exactly once and no other;
\* server_cmd is None again once the dispatch is over, and a pass that
\* reads no command datagram invokes no commanded capability.
C7_CommandDispatchedOnce ==
    /\ (last.step = "poll" /\ last.in \in Commands)
       => effects = <<send_to(last.src)>>
    /\ (last.step = "dispatch" /\ last.in \in Commands)
       => /\ Count(Capability(last.in), effects) = 1
          /\ CommandCalls(effects) = 1
    /\ (last.step = "dispatch" /\ last.in \notin Commands)
       => CommandCalls(effects) = 0
    /\ pc # "dispatch" => server_cmd = "None"

C7_Witness ==
    /\ last.step = "dispatch"
    /\ last.in = "RESTART_ADBD"
    /\ Count("force_restart_adbd_process", effects) = 1
    /\ server_cmd = "None"
    /\ pc = "cpu"

C9_UnrecognizedIgnored ==
    /\ []((last.step \in {"poll", "dispatch"} /\ last.in \notin Recognized)
          => effects = <<>>)
    /\ [][(PollStep /\ last'.in \notin Recognized)
          => UNCHANGED <<server_cmd, Counters, profile>>]_vars

C9_Witness ==
    /\ last.step = "dispatch"
    /\ last.in = "FOO"
    /\ effects = <<>>
    /\ server_cmd = "None"

\* C10: a poll that reads PING sends exactly one OK, to its sender, stores
\* nothing in server_cmd and changes no counter, and the dispatch that
\* follows invokes nothing.
C10_PingOnlyAcknowledged ==
    /\ []((last.step = "poll" /\ last.in = "PING")
          => effects = <<send_to(last.src)>> /\ server_cmd = "None")
    /\ []((last.step = "dispatch" /\ last.in = "PING") => effects = <<>>)
    /\ [][(PollStep /\ last'.in = "PING")
          => UNCHANGED <<server_cmd, Counters, profile>>]_vars

C10_Witness ==
    /\ last.step = "poll"
    /\ last.in = "PING"
    /\ last.src = "10.0.0.3:4000"
    /\ effects = <<send_to("10.0.0.3:4000")>>
    /\ server_cmd = "None"

\* an endpoint of the form host:port
WellFormedEndpoint(t) == t \in {"127.0.0.1:80", "router.lan:80"}

\* C11: with a malformed target endpoint the process aborts at startup:
\* once main has run it has panicked, and no step of the loop and no
\* startup call was made.
C11_MalformedAbortsAtStartup ==
    (pc # "start" /\ ~WellFormedEndpoint(target_ip))
    => /\ pc = "panicked"
       /\ last.step = "startup"
       /\ effects = <<>>

C11_Witness ==
    /\ pc = "panicked"
    /\ last.step = "net"
    /\ last.in = "panic"
    /\ ~WellFormedEndpoint(target_ip)

\* C12: a CPU check whose read of /proc/stat fails changes neither the
\* previous snapshot nor any of the four counters, calls nothing, and the
\* pass goes on to the connectivity check.
C12_FailedReadSkipsCheck ==
    [][(pc = "cpu" /\ last'.step = "cpu" /\ last'.in = "err")
       => /\ UNCHANGED <<prev_cpu_stats, Counters, profile>>
          /\ effects' = <<>>
          /\ pc' = "net"]_vars

C12_Witness ==
    /\ last.step = "cpu"
    /\ last.in = "err"
    /\ prev_cpu_stats # ZeroStats
    /\ high_load_count = 2
    /\ back_to_normal_load_count = 1
    /\ pc = "net"

\* the sum of the ten counters of a snapshot
SumOfTen(s) ==
    s.user + s.nice + s.system + s.idle + s.iowait + s.irq + s.softirq
    + s.steal + s.guest + s.guest_nice

\* total minus the idle and iowait counters
ActiveOf(s) == SumOfTen(s) - (s.idle + s.iowait)

\* calculate_cpu_usage has been applied to the snapshots call.a, call.b
UsageApplied == call.fn = "calculate_cpu_usage" /\ call.done

TotalDelta == SumOfTen(call.b) - SumOfTen(call.a)

ActiveDelta == ActiveOf(call.b) - ActiveOf(call.a)

\* C13: calculate_cpu_usage(prev, cur) is 100 * active delta / total delta
\* when the total delta is positive and 0 when it is not.
C13_UsageFormula ==
    UsageApplied
    => /\ call.result.den > 0
       /\ IF TotalDelta > 0
          THEN call.result.num * TotalDelta = 100 * ActiveDelta * call.result.den
          ELSE call.result.num = 0

C13_Witness ==
    /\ UsageApplied
    /\ TotalDelta > 0
    /\ call.a.iowait # call.b.iowait
    /\ call.a.guest_nice # call.b.guest_nice
    /\ call.result.num > 0
    /\ call.result.num < 100 * call.result.den

CounterNames ==
    {"user", "nice", "system", "idle", "iowait", "irq", "softirq", "steal",
     "guest", "guest_nice"}

\* some counter of the second snapshot is below its value in the first
CounterWentBack == \E f \in CounterNames : call.b[f] < call.a[f]

\* C14: for every pair of snapshots the usage lies in [0, 100], and it is
\* 0 when a counter went backwards.
C14_UsageWithinPercent ==
    UsageApplied
    => /\ call.result.num >= 0
       /\ call.result.num <= 100 * call.result.den
       /\ CounterWentBack => call.result.num = 0

C14_Witness ==
    /\ UsageApplied
    /\ CounterWentBack
    /\ TotalDelta > 0
    /\ call.result.num < 0

\* the flags main acts on: --background, -b, --isprod
MainFlags == {Str(2, "background"), Str(1, "b"), Str(2, "isprod")}

TargetApplied == call.fn = "get_target_ip" /\ call.done

\* the positions of the arguments that are not flags
NonFlags == {i \in 2..Len(call.a) : call.a[i] \notin MainFlags}

\* C15: the target is the first argument that is not one of the flags
\* --background, -b, --isprod; without one, TARGET_IP when set and not
\* empty; otherwise 127.0.0.1:80.
C15_TargetByPriority ==
    TargetApplied
    => call.result =
         IF NonFlags # {}
         THEN call.a[CHOOSE i \in NonFlags : \A j \in NonFlags : i <= j]
         ELSE IF call.b.set /\ call.b.value # Str(0, "")
              THEN call.b.value
              ELSE Str(0, "127.0.0.1:80")

C15_Witness ==
    /\ TargetApplied
    /\ call.a = <<Str(0, "zxic-ping"), Str(1, "b"), Str(0, "10.0.0.1:80")>>
    /\ call.result = Str(1, "b")

StatApplied == call.fn = "get_cpu_stats" /\ call.done

\* the counters in the order of the fields of the line
CounterOrder ==
    <<"user", "nice", "system", "idle", "iowait", "irq", "softirq", "steal",
      "guest", "guest_nice">>

\* the aggregate lines of the file that have nine fields or more
AggregateLines ==
    {l \in DOMAIN call.a.lines :
        /\ call.a.lines[l][1] = <<"c", "p", "u">>
        /\ Len(call.a.lines[l]) - 1 >= 9}

\* fields that are not integers
NotIntegers == {<<"x">>, <<"1", ".", "5">>, <<"4", "k">>}

\* C16: the first "cpu" line with at least nine fields yields a snapshot
\* whose counters are its fields in order; a tenth field that is missing
\* and a field that is not an integer read 0; without such a line, or
\* without the file, the result is an error.
C16_CpuLineParsed ==
    StatApplied
    => IF ~call.a.readable \/ AggregateLines = {}
       THEN ~call.result.ok
       ELSE LET line ==
                    call.a.lines[CHOOSE l \in AggregateLines :
                                    \A m \in AggregateLines : l <= m]
            IN  /\ call.result.ok
                /\ \A k \in 1..10 :
                     LET counter == call.result.stats[CounterOrder[k]]
                     IN  IF k > Len(line) - 1
                         THEN counter = 0
                         ELSE /\ \A n \in 0..99 :
                                    line[k + 1] = Numeral(n) => counter = n
                              /\ line[k + 1] \in NotIntegers => counter = 0

C16_Witness ==
    /\ StatApplied
    /\ call.a.lines = <<StatLine(<<"c", "p", "u">>, 8, 0, <<"x">>),
                        StatLine(<<"c", "p", "u">>, 9, 3, <<"x">>)>>
    /\ call.result.ok
    /\ call.result.stats.user = 11
    /\ call.result.stats.system = 0
    /\ call.result.stats.guest = 19
    /\ call.result.stats.guest_nice = 0

\* C17: between the sample that leaves Normal and the one that returns to
\* it, the load machine invokes throttle at most once, however many
\* over-threshold samples follow the third.
C17_ThrottleOncePerEscalation ==
    /\ escalation <= 1
    /\ high_load_count = 0 => escalation = 0

C17_Witness ==
    /\ CpuSampled("over")
    /\ high_load_count = 5
    /\ escalation = 1
    /\ Throttles(effects) = 0

\* C18: the load machine invokes throttle only when the three most recent
\* CPU samples were all over the threshold.
C18_ThrottleNeedsThreeInARow ==
    (last.step = "cpu" /\ Throttles(effects) > 0)
    => cpu_run.kind = "over" /\ cpu_run.len >= 3

C18_Witness ==
    /\ CpuSampled("over")
    /\ cpu_run.len = 1
    /\ cpu_run.base = 2
    /\ back_to_normal_load_count = 0
    /\ Throttles(effects) = 1

\* the notifications among the calls fx
Notified(fx) ==
    {fx[i].arg : i \in {j \in DOMAIN fx : fx[j].op = "send_udp_notification"}}

\* the step being taken is a CPU check that takes a sample of class kind
SampleStep(kind) == pc = "cpu" /\ last'.step = "cpu" /\ last'.in = kind

\* what a CPU check that takes a sample is to send
OneNotification(message) ==
    /\ Count("send_udp_notification", effects') = 1
    /\ Notified(effects') = {message}

\* C19: a CPU check that takes a sample sends exactly one notification:
\* HIGH_LOAD_ENTER for a sample over the threshold in Normal, HIGH_LOAD for
\* one in Elevated, HIGH_LOAD_EXIT for one at or under it in Elevated; in
\* Normal a sample at or under the threshold sends nothing, calls nothing
\* and leaves both counters 0.
C19_OneNotificationPerSample ==
    [][/\ (SampleStep("over") /\ high_load_count = 0)
          => OneNotification("HIGH_LOAD_ENTER")
       /\ (SampleStep("over") /\ high_load_count > 0)
          => OneNotification("HIGH_LOAD")
       /\ (SampleStep("under") /\ high_load_count > 0)
          => OneNotification("HIGH_LOAD_EXIT")
       /\ (SampleStep("under") /\ high_load_count = 0)
          => /\ effects' = <<>>
             /\ high_load_count' = 0
             /\ back_to_normal_load_count = 0
             /\ back_to_normal_load_count' = 0]_vars

C19_Witness ==
    /\ CpuSampled("under")
    /\ cpu_run.base >= 1
    /\ Restores(effects) = 1
    /\ Notified(effects) = {"HIGH_LOAD_EXIT"}
    /\ high_load_count = 0

\* the step being taken is the one of the task named, and the task runs
Fires(task) == pc = task /\ last'.step = task /\ last'.in # "not due"

\* C20: each periodic task runs in a pass only if the time since it last
\* ran is at least its interval (30 s, 60 s, 24 h), and when it runs its
\* reference becomes the pass's own time, whatever the time overdue; a
\* task that does not run keeps its reference.
C20_TimersFireWhenDue ==
    [][/\ Fires("cpu") => since_cpu_check >= 30 /\ since_cpu_check' = 0
       /\ Fires("net") => since_network_check >= 60 /\ since_network_check' = 0
       /\ Fires("prune") => since_log_prune >= 86400 /\ since_log_prune' = 0
       /\ (pc = "cpu" /\ ~Fires("cpu")) => UNCHANGED since_cpu_check
       /\ (pc = "net" /\ ~Fires("net")) => UNCHANGED since_network_check
       /\ (pc = "prune" /\ ~Fires("prune")) => UNCHANGED since_log_prune
       /\ pc \in {"cpu", "net", "prune"} => pc' # pc]_vars

C20_Witness ==
    /\ last.step = "net"
    /\ last.in = "not due"
    /\ since_cpu_check = 0
    /\ since_network_check = 34
    /\ since_log_prune = 94

\* the steps of a pass, in the order claimed
PassOrder == <<"poll", "dispatch", "cpu", "net", "prune", "sleep">>

\* the step being taken is the k-th of a pass
Takes(k) == pc = PassOrder[k] /\ pc' # pc

\* C21: the steps of a pass are taken in the order poll, dispatch, CPU
\* check, connectivity check, log truncation, sleep, and after the sleep
\* the next pass polls again; every pass polls, whatever is due.
C21_StepsInOrder ==
    [][/\ \A k \in 1..5 :
            Takes(k) => /\ last'.step = PassOrder[k]
                        /\ pc' \in {PassOrder[k + 1], "rebooted", "panicked",
                                      "blocked"}
       /\ Takes(6) => last'.step = "sleep" /\ pc' = "poll"]_vars

C21_Witness ==
    /\ last.step = "poll"
    /\ last.in = "WouldBlock"
    /\ pc = "dispatch"
    /\ since_cpu_check = 4
    /\ since_network_check = 34
    /\ since_log_prune < 86400

\* C22: a CPU check changes neither high_latency_count nor failure_count; a
\* connectivity check changes neither high_load_count nor
\* back_to_normal_load_count; a poll of the mailbox and the dispatch of a
\* command, whether its action works, fails or comes back from a reboot,
\* change none of the four counters and leave the previous CPU snapshot.
C22_CounterOwnership ==
    [][/\ Takes(3) => UNCHANGED <<high_latency_count, failure_count>>
       /\ Takes(4) => UNCHANGED <<high_load_count, back_to_normal_load_count>>
       /\ (Takes(1) \/ Takes(2)) => UNCHANGED <<Counters, prev_cpu_stats>>]_vars

C22_Witness ==
    /\ last.step = "dispatch"
    /\ last.in = RESTART_SIGNAL_SERVER
    /\ effects = <<reboot_system>>
    /\ pc = "cpu"
    /\ failure_count = 1
    /\ high_latency_count = 2
    /\ high_load_count = 3
    /\ prev_cpu_stats # ZeroStats

\* the CPU check being taken samples a usage of exactly the threshold
SampleAtThreshold ==
    /\ pc = "cpu"
    /\ last'.step = "cpu"
    /\ last'.in \in {"over", "under"}
    /\ total(prev_cpu_stats') > total(prev_cpu_stats)
    /\ 100 * (active_total(prev_cpu_stats') - active_total(prev_cpu_stats))
       = CPU_USAGE_THRESHOLD * (total(prev_cpu_stats') - total(prev_cpu_stats))

\* the connectivity check being taken connects in exactly the threshold
ProbeAtThreshold ==
    /\ pc = "net"
    /\ last'.step = "net"
    /\ last'.in \in {"fast", "slow"}
    /\ last'.ms = HIGH_LATENCY_THRESHOLD

RestartFails ==
    /\ Takes(2)
    /\ server_cmd = "RestartADB"
    /\ effects' = <<Fx("force_restart_adbd_process", "")>>
    /\ pc' # "blocked"

\* the dispatch being taken runs a reboot attempt that comes back
RebootFails == Takes(2) /\ server_cmd = "RestartSERVER" /\ pc' # "rebooted"

\* C24: the dispatch stores None whatever its action does, so a stored
\* command runs its action at most once: an action runs only in the pass
\* that read its datagram, a dispatch with nothing stored runs none, and
\* when the restart of adbd or the reboot attempt fails nothing but the
\* failed call happens, the pass goes on to the CPU check and the four
\* counters keep their values.
C24_ClearedBeforeAction ==
    [][Takes(2) =>
            /\ server_cmd' = "None"
            /\ CommandCalls(effects') <= 1
            /\ server_cmd = "None" => CommandCalls(effects') = 0
            /\ CommandCalls(effects') = 1 =>
                    last.step = "poll" /\ last.in \in Commands
            /\ (RestartFails \/ RebootFails) =>
                    /\ pc' = "cpu"
                    /\ Len(effects') = 1
                    /\ UNCHANGED Counters]_vars

\* a restart of adbd has failed with counters standing: nothing is stored
C24_Witness ==
    /\ last.step = "dispatch"
    /\ last.in = RESTART_SIGNAL_ADBD
    /\ effects = <<Fx("force_restart_adbd_process", "")>>
    /\ pc = "cpu"
    /\ server_cmd = "None"
    /\ failure_count = 1
    /\ high_load_count = 3
    /\ high_latency_count = 1

\* C25: recovery of the load machine is consecutive.  A sample over the
\* threshold sets back_to_normal_load_count to 0 and restores nothing, and
\* a CPU check restores and clears the cache only as the third or later of
\* a run of samples at or under the threshold; one or two such samples and
\* then one over the threshold leave the count at 0 for the next run.
C25_RecoveryConsecutive ==
    [][/\ SampleStep("over") =>
            /\ back_to_normal_load_count' = 0
            /\ Restores(effects') = 0
            /\ CacheClears(effects') = 0
       /\ (Takes(3) /\ Restores(effects') + CacheClears(effects') > 0) =>
            /\ cpu_run'.kind = "under"
            /\ cpu_run'.len >= 3
            /\ back_to_normal_load_count = 2]_vars

\* elevated, then a sample or two at or under the threshold, then one over
C25_Witness ==
    /\ CpuSampled("over")
    /\ cpu_run.len = 1
    /\ cpu_run.base >= 1
    /\ high_load_count >= 2
    /\ back_to_normal_load_count = 0
    /\ Restores(effects) = 0

\* C26: a failed probe leaves high_latency_count as it was, adds one to
\* failure_count and neither throttles nor restores; the streak counts
\* successful probes only, so the third slow probe throttles also when
\* failures came right before it, and a normal-latency probe restores
\* after a streak of exactly three also when failures came in between.
C26_FailureKeepsStreak ==
    [][/\ (Takes(4) /\ last'.in = "fail") =>
            /\ high_latency_count' = high_latency_count
            /\ failure_count' = failure_count + 1
            /\ Throttles(effects') = 0
            /\ Restores(effects') = 0
       /\ (Takes(4) /\ last'.in = "slow" /\ fail_run >= 1 /\ slow_run = 2) =>
            Throttles(effects') = 1
       /\ (Takes(4) /\ last'.in = "fast" /\ fail_run >= 1 /\ slow_run = 3) =>
            Restores(effects') = 1 /\ high_latency_count' = 0]_vars

\* three slow probes, then failures, then a normal one that restores
C26_Witness ==
    /\ Probed("fast")
    /\ net_before.slow = 3
    /\ net_before.fail >= 2
    /\ Restores(effects) = 1
    /\ failure_count = 0
    /\ profile = "Normal"

\* C27: as long as the load machine has throttled and not yet returned to
\* Normal (high_load_count >= 3), the profile applied last is Throttled: a
\* restore by the latency machine does not undo the throttle of the load
\* machine.
C27_ProfileFollowsLoad == high_load_count >= 3 => profile = "Throttled"

\* the latency machine has just restored under a standing load throttle
C27_Witness ==
    /\ Probed("fast")
    /\ net_before.slow = 3
    /\ Restores(effects) = 1
    /\ high_load_count >= 3
    /\ cpu_run.kind = "over"
    /\ profile = "Normal"

\* the control port was bound and the target parses
StartedWell ==
    /\ pc # "start"
    /\ ~(pc = "panicked" /\ last.step = "startup")
    /\ ParsesAsSocketAddr(target_ip)

\* C28: with a well-formed target and the control port bound, the loop
\* never stops on its own: whatever fails, the scheduler is at a step of a
\* pass, from which the pass goes on to the next CPU and connectivity
\* checks, unless a reboot that worked has ended the process.
C28_LoopNeverStops ==
    StartedWell =>
        pc \in {PassOrder[k] : k \in 1..6} \cup {"rebooted"}

\* the restart of adbd was commanded and /bin/adbd runs on: the pass waits
C28_Witness ==
    /\ StartedWell
    /\ pc = "blocked"
    /\ last.step = "dispatch"
    /\ last.in = RESTART_SIGNAL_ADBD
    /\ effects = <<Fx("force_restart_adbd_process", "")>>
    /\ server_cmd = "None"

====
